---- MODULE Spec2Model ----
(***************************************************************************)
(* Upload-token issuance, validation and public document upload of the     *)
(* claims portal: src/lib/uploadTokens.ts, src/lib/uploadDocument.ts,      *)
(* src/pages/PublicUpload.tsx and the DocumentsTab component.              *)
(*                                                                         *)
(* The claim_documents table is the set `docs` of rows; the clock `now` is *)
(* Date.now() in milliseconds; the content store behind the upload lambda  *)
(* is the set `blobs`.                                                     *)
(***************************************************************************)
EXTENDS Integers, Sequences, FiniteSets, TLC

VARIABLES
    now,          \* Date.now(), milliseconds
    docs,         \* rows of the claim_documents table
    nextId,       \* next primary key the table hands out
    nextUuid,     \* number of crypto.randomUUID() values drawn so far
    gen,          \* the generateUploadToken / generateBatchUploadToken call in flight
    calls,        \* completed generate calls: what each one surfaced to its caller
    blobs,        \* files held by the content store behind the upload endpoint
    pagePc,       \* PublicUpload: "closed", "checking" (checkToken awaits), "ready"
    pToken,       \* PublicUpload: searchParams.get("token")
    tokenValid,   \* PublicUpload state: "null", "true", "false"
    pClaimId,     \* PublicUpload state claimId
    pCompanyId,   \* PublicUpload state companyId
    uploaderName, \* PublicUpload state
    files,        \* PublicUpload state: sequence of UploadedFile
    isUploading,  \* PublicUpload state
    up,           \* the handleUpload run in flight (its closure and position)
    requestFailed,\* whether the lookup request of the last checkToken failed
    dup,          \* DocumentsTab: the handleDirectUpload run in flight
    uploadLink,   \* DocumentsTab state
    ud,           \* a call of uploadDocument made on its own: its position and result
    auth,         \* AuthProvider state: user, session, loading, userRole, companyId
    getSession,   \* AuthProvider: the getSession() promise, "pending" or "done"
    roleFetches,  \* AuthProvider: fetchUserRole calls awaiting their answer, per user id
    toast         \* the toasts emitted by the step just taken

tokvars == <<now, docs, nextId, nextUuid, gen, calls>>
tabvars == <<dup, uploadLink>>
pagevars == <<pagePc, pToken, tokenValid, pClaimId, pCompanyId, uploaderName, files,
              isUploading, up, requestFailed>>
authvars == <<auth, getSession, roleFetches>>
vars == <<now, docs, nextId, nextUuid, gen, calls, blobs, pagePc, pToken, tokenValid,
          pClaimId, pCompanyId, uploaderName, files, isUploading, up, requestFailed, dup, uploadLink, ud,
          auth, getSession, roleFetches, toast>>

----------------------------------------------------------------------------
(* Bounds of the model *)

MaxHours == 1     \* the clock runs this many hours past the start
MaxTokens == 2    \* number of generate calls (each draws one UUID)
MaxBlobs == 2     \* transfers the content store accepts

(* Program constants *)

DefaultExpiryDays == 7
DefaultExpiryHours == 168

\* Instants are whole seconds: Date.now() is MsPerSecond times the model's `now`,
\* so that a month of milliseconds stays in the range of the integers.
MsPerSecond == 1000
MsPerHour == 60 * 60 * (1000 \div MsPerSecond)
MsPerDay == 24 * 60 * 60 * (1000 \div MsPerSecond)

(* Fixtures: the users table, the claims table, the inputs of the calls *)

NULLV == "<null>"                     \* SQL NULL / JS null in a string column
NULL == [null |-> TRUE]               \* the validators' null result
NoUser == NULLV
Users == {"u1", "u2"}
UserCompany == [u \in Users |-> IF u = "u1" THEN "coA" ELSE NULLV]
Claims == {"c1", "c2"}
ClaimCompany == [c \in Claims |-> IF c = "c1" THEN "coA" ELSE "coB"]
FieldLabels == {"Invoice"}
ExpiryDaysInputs == {0, DefaultExpiryDays}
LongExpiryDaysInputs == {31}          \* a month and more
LongExpiryHoursInputs == {31 * 24}

\* the clock is observed at each hour mark and one unit of time after it
TimePoints == {h * MsPerHour + ms : h \in 0..MaxHours, ms \in {0, 1}}

UUID(i) == "uuid-" \o ToString(i)
UUIDs == {UUID(i) : i \in 1..MaxTokens}

----------------------------------------------------------------------------
(* Dates.  Date.prototype.toISOString writes the calendar day and the time *)
(* of day; new Date(string) reads them back; new Date(null) is the epoch.  *)

toISOString(ms) == <<ms \div MsPerDay, ms % MsPerDay>>

NewDate(v) == IF v = <<>> THEN 0 ELSE v[1] * MsPerDay + v[2]

NullTs == <<>>

----------------------------------------------------------------------------
(* File names are sequences of segments; a LIKE pattern `<prefix>%` matches *)
(* a name whose first segment is the prefix.                                *)

PLACEHOLDER_PREFIX == "__TOKEN_PLACEHOLDER_"
BATCH_PREFIX == "__BATCH_TOKEN_"

Like(file_name, prefix) == Len(file_name) > 0 /\ file_name[1] = prefix

Eq(column, value) == column # NULLV /\ column = value

NoMetadata == [null |-> TRUE]

----------------------------------------------------------------------------
(* Token issuance *)

NoCall == [pc |-> "idle"]

Idle == [pc |-> "idle"]

NoData == [null |-> TRUE]

\* variant: a generator that repeats itself (C8 depends on fresh token values)
randomUUID_Repeating == UUID(1)

randomUUID == UUID(nextUuid + 1)

UploadTokenData(token, claimId, companyId, fieldLabel, expiresAt) ==
    [token |-> token, claimId |-> claimId, companyId |-> companyId,
     fieldLabel |-> fieldLabel, expiresAt |-> expiresAt,
     uploadUrl |-> <<"/public-upload?token=", token>>]

\* the call rejects; generateLinkMutation's onError shows the failure
Thrown(error, inserts) ==
    /\ calls' = calls \cup {[token |-> gen.token, fn |-> gen.fn, outcome |-> "error",
                             error |-> error, inserts |-> inserts, data |-> NoData]}
    /\ gen' = NoCall
    /\ toast' = IF gen.via = "mutation"
                THEN <<"error", "Failed to generate upload link">> ELSE <<>>
    /\ UNCHANGED uploadLink

\* lines 12-18: the token and its expiry are fixed before the first await
generateUploadToken(claimId, fieldLabel, expiryDays) ==
    /\ gen = NoCall
    /\ nextUuid < MaxTokens
    /\ gen' = [pc |-> "getUser", fn |-> "single", via |-> "api", token |-> randomUUID,
               claimId |-> claimId, fieldLabel |-> fieldLabel,
               expiresAt |-> now + expiryDays * 24 * 60 * 60 * (1000 \div MsPerSecond),
               user |-> NoUser, company_id |-> NULLV, inserts |-> 0]
    /\ nextUuid' = nextUuid + 1
    /\ toast' = <<>>
    /\ UNCHANGED <<authvars, ud, now, docs, nextId, calls, blobs, pagevars, tabvars>>

\* lines 93-98; `via` is the caller: "api", or "mutation" for generateLinkMutation
generateBatchUploadToken(claimId, expiryHours, via) ==
    /\ gen = NoCall
    /\ nextUuid < MaxTokens
    /\ gen' = [pc |-> "getUser", fn |-> "batch", via |-> via, token |-> randomUUID,
               claimId |-> claimId, fieldLabel |-> "Batch Upload",
               expiresAt |-> now + expiryHours * 60 * 60 * (1000 \div MsPerSecond),
               user |-> NoUser, company_id |-> NULLV, inserts |-> 0]
    /\ nextUuid' = nextUuid + 1
    /\ toast' = <<>>
    /\ UNCHANGED <<authvars, ud, now, docs, nextId, calls, blobs, pagevars, tabvars>>

\* supabase.auth.getUser() and the check of its result
GenGetUser(user) ==
    /\ gen.pc = "getUser"
    /\ IF user = NoUser
       THEN Thrown("User not authenticated", gen.inserts)
       ELSE /\ gen' = [gen EXCEPT !.pc = "profile", !.user = user]
            /\ toast' = <<>>
            /\ UNCHANGED <<calls, uploadLink>>
    /\ UNCHANGED <<authvars, ud, now, docs, nextId, nextUuid, blobs, pagevars, dup>>

\* the users lookup of company_id and the check of its result
GenGetProfile ==
    /\ gen.pc = "profile"
    /\ IF UserCompany[gen.user] = NULLV
       THEN Thrown("User has no company_id", gen.inserts)
       ELSE /\ gen' = [gen EXCEPT !.pc = "insert", !.company_id = UserCompany[gen.user]]
            /\ toast' = <<>>
            /\ UNCHANGED <<calls, uploadLink>>
    /\ UNCHANGED <<authvars, ud, now, docs, nextId, nextUuid, blobs, pagevars, dup>>

\* variant: the single-field insert written with the batch insert's label (C9
\* depends on the label stored being the label returned)
TokenRow_BatchLabel(id, g) ==
    [id |-> id,
     claim_id |-> g.claimId,
     company_id |-> g.company_id,
     file_name |-> <<IF g.fn = "single" THEN PLACEHOLDER_PREFIX ELSE BATCH_PREFIX, g.token, "__">>,
     file_path |-> <<IF g.fn = "single" THEN PLACEHOLDER_PREFIX ELSE BATCH_PREFIX, g.token, "__">>,
     file_type |-> IF g.fn = "single" THEN "application/token-placeholder"
                                      ELSE "application/batch-token",
     file_size |-> 0,
     uploaded_by |-> g.user,
     field_label |-> "Batch Upload",
     upload_token |-> g.token,
     token_expires_at |-> toISOString(g.expiresAt),
     uploaded_via_link |-> FALSE,
     is_selected |-> FALSE,
     metadata |-> NoMetadata]

TokenRow(id, g) ==
    [id |-> id,
     claim_id |-> g.claimId,
     company_id |-> g.company_id,
     file_name |-> <<IF g.fn = "single" THEN PLACEHOLDER_PREFIX ELSE BATCH_PREFIX, g.token, "__">>,
     file_path |-> <<IF g.fn = "single" THEN PLACEHOLDER_PREFIX ELSE BATCH_PREFIX, g.token, "__">>,
     file_type |-> IF g.fn = "single" THEN "application/token-placeholder"
                                      ELSE "application/batch-token",
     file_size |-> 0,
     uploaded_by |-> g.user,
     field_label |-> g.fieldLabel,
     upload_token |-> g.token,
     token_expires_at |-> toISOString(g.expiresAt),
     uploaded_via_link |-> FALSE,
     is_selected |-> FALSE,
     metadata |-> NoMetadata]

\* variant: a failed insert is tried once more before it is surfaced (C10 depends
\* on the single attempt)
InsertError_RetryOnce ==
    IF gen.inserts = 0
    THEN /\ gen' = [gen EXCEPT !.inserts = @ + 1]
         /\ toast' = <<>>
         /\ UNCHANGED <<calls, uploadLink>>
    ELSE Thrown("insert failed", gen.inserts + 1)

\* `if (error) throw error`: the failed insert is surfaced, the call ends
InsertError == Thrown("insert failed", gen.inserts + 1)

\* the insert into claim_documents, `if (error) throw error`, and the return;
\* generateLinkMutation's onSuccess keeps the returned uploadUrl
GenInsert(ok) ==
    /\ gen.pc = "insert"
    /\ IF ok
       THEN LET data == UploadTokenData(gen.token, gen.claimId, gen.company_id,
                                        gen.fieldLabel, gen.expiresAt)
            IN  /\ docs' = docs \cup {TokenRow(nextId, gen)}
                /\ nextId' = nextId + 1
                /\ calls' = calls \cup
                     {[token |-> gen.token, fn |-> gen.fn, outcome |-> "returned",
                       error |-> "", inserts |-> gen.inserts + 1, data |-> data]}
                /\ gen' = NoCall
                /\ IF gen.via = "mutation"
                   THEN /\ uploadLink' = data.uploadUrl
                        /\ toast' = <<"success", "Upload link generated successfully!">>
                   ELSE /\ toast' = <<>>
                        /\ UNCHANGED uploadLink
       ELSE /\ InsertError
            /\ UNCHANGED <<docs, nextId>>
    /\ UNCHANGED <<authvars, ud, now, nextUuid, blobs, pagevars, dup>>

----------------------------------------------------------------------------
(* Token validation *)

Scope(data) ==
    [claimId |-> data.claim_id, companyId |-> data.company_id, fieldLabel |-> data.field_label]

\* .single(): an error unless exactly one row matches (or the request fails)
Single(rows, requestFails) ==
    IF requestFails \/ Cardinality(rows) # 1
    THEN [data |-> NULL, error |-> TRUE]
    ELSE [data |-> CHOOSE r \in rows : TRUE, error |-> FALSE]

\* variant: the lookup without the comparison of token_expires_at (C1 depends on
\* the expiry check)
validateUploadToken_NoExpiryCheck(token, rows, t, requestFails) ==
    IF token = "" \/ token = NULLV THEN NULL
    ELSE LET res == Single({r \in rows : /\ Eq(r.upload_token, token)
                                         /\ Like(r.file_name, PLACEHOLDER_PREFIX)},
                           requestFails)
         IN  IF res.error \/ res.data = NULL THEN NULL
             ELSE Scope(res.data)

\* variant: the lookup without the filter on the placeholder file name (C29
\* depends on batch records being left out)
validateUploadToken_AnyRecord(token, rows, t, requestFails) ==
    IF token = "" \/ token = NULLV THEN NULL
    ELSE LET res == Single({r \in rows : Eq(r.upload_token, token)}, requestFails)
         IN  IF res.error \/ res.data = NULL THEN NULL
             ELSE IF NewDate(res.data.token_expires_at) < t THEN NULL
             ELSE Scope(res.data)

validateUploadToken(token, rows, t, requestFails) ==
    IF token = "" \/ token = NULLV THEN NULL
    ELSE LET res == Single({r \in rows : /\ Eq(r.upload_token, token)
                                         /\ Like(r.file_name, PLACEHOLDER_PREFIX)},
                           requestFails)
         IN  IF res.error \/ res.data = NULL THEN NULL
             ELSE IF NewDate(res.data.token_expires_at) < t THEN NULL
             ELSE Scope(res.data)

\* variant: the comparison of token_expires_at written the other way round (C4
\* depends on its direction)
validateBatchUploadToken_Reversed(token, rows, t, requestFails) ==
    IF token = "" \/ token = NULLV THEN NULL
    ELSE LET res == Single({r \in rows : /\ Eq(r.upload_token, token)
                                         /\ \/ Like(r.file_name, PLACEHOLDER_PREFIX)
                                            \/ Like(r.file_name, BATCH_PREFIX)},
                           requestFails)
         IN  IF res.error \/ res.data = NULL THEN NULL
             ELSE IF NewDate(res.data.token_expires_at) > t THEN NULL
             ELSE Scope(res.data)

validateBatchUploadToken(token, rows, t, requestFails) ==
    IF token = "" \/ token = NULLV THEN NULL
    ELSE LET res == Single({r \in rows : /\ Eq(r.upload_token, token)
                                         /\ \/ Like(r.file_name, PLACEHOLDER_PREFIX)
                                            \/ Like(r.file_name, BATCH_PREFIX)},
                           requestFails)
         IN  IF res.error \/ res.data = NULL THEN NULL
             ELSE IF NewDate(res.data.token_expires_at) < t THEN NULL
             ELSE Scope(res.data)

----------------------------------------------------------------------------
(* uploadDocument.ts *)

MAX_FILE_SIZE == 5 * 1024 * 1024

validateFileSize(file) == [valid |-> ~(file.size > MAX_FILE_SIZE)]

\* variant: the size check written with >= (C13 depends on a file of exactly the
\* limit being accepted)
uploadDocumentRejects_AtLimit(file) == file.size >= MAX_FILE_SIZE

\* the size check of uploadDocument, made before the request is built
uploadDocumentRejects(file) == file.size > MAX_FILE_SIZE

Blob(url, file, claim, name, company) ==
    [url |-> url, file |-> file, claimId |-> claim, uploaderName |-> name,
     companyId |-> company]

NewUrl == <<"https://store/", Cardinality(blobs) + 1>>

\* files of every size around the limit
SizedFiles ==
    {[name |-> <<"s", "pdf">>, type |-> "application/pdf", size |-> n] :
        n \in {0, MAX_FILE_SIZE - 1, MAX_FILE_SIZE, MAX_FILE_SIZE + 1, 2 * MAX_FILE_SIZE}}

\* lines 11-39: uploadDocument is called; the size check throws, or the form is
\* built and the POST is sent
uploadDocument(file, claimId, name, companyId) ==
    /\ ud.pc # "fetch"
    /\ IF uploadDocumentRejects(file)
       THEN ud' = [pc |-> "thrown", file |-> file, sent |-> FALSE,
                   error |-> "File size exceeds 5MB limit", url |-> NULLV]
       ELSE ud' = [pc |-> "fetch", file |-> file, sent |-> TRUE, error |-> NULLV,
                   url |-> NULLV, claimId |-> claimId, uploaderName |-> name,
                   companyId |-> companyId]
    /\ toast' = <<>>
    /\ UNCHANGED <<authvars, tokvars, blobs, pagevars, tabvars>>

\* lines 36-56: the endpoint answers; `!response.ok` throws, else the url is returned
UploadAnswer(ok) ==
    /\ ud.pc = "fetch"
    /\ IF ok
       THEN /\ Cardinality(blobs) < MaxBlobs
            /\ blobs' = blobs \cup {Blob(NewUrl, ud.file, ud.claimId, ud.uploaderName,
                                         ud.companyId)}
            /\ ud' = [pc |-> "returned", file |-> ud.file, sent |-> TRUE,
                       error |-> NULLV, url |-> NewUrl]
       ELSE /\ ud' = [pc |-> "thrown", file |-> ud.file, sent |-> TRUE,
                       error |-> "Upload failed", url |-> NULLV]
            /\ UNCHANGED blobs
    /\ toast' = <<>>
    /\ UNCHANGED <<authvars, tokvars, pagevars, tabvars>>

----------------------------------------------------------------------------
(* saveUploadedDocument *)

\* .maybeSingle(): null data when no row matches, an error when several do
MaybeSingle(rows, requestFails) ==
    IF requestFails \/ Cardinality(rows) > 1 THEN [data |-> NULL, error |-> TRUE]
    ELSE IF rows = {} THEN [data |-> NULL, error |-> FALSE]
    ELSE [data |-> CHOOSE r \in rows : TRUE, error |-> FALSE]

Extension(fileName) ==
    IF Len(fileName) = 0 \/ fileName[Len(fileName)] = "" THEN "unknown"
    ELSE fileName[Len(fileName)]

\* variant: the record of an upload written with the token in its upload_token
\* column (C28 depends on the column being null)
SavedRow_KeepsToken(id, claim, company, fileName, fileUrl, fileSize, name, token, lookupFails) ==
    [id |-> id,
     claim_id |-> claim,
     company_id |-> company,
     file_name |-> fileName,
     file_path |-> fileUrl,
     file_type |-> Extension(fileName),
     file_size |-> fileSize,
     uploaded_by |-> NULLV,
     field_label |-> "Uploaded by: " \o name,
     upload_token |-> token,
     token_expires_at |-> NullTs,
     uploaded_via_link |-> TRUE,
     is_selected |-> FALSE,
     metadata |-> [uploader_name |-> name, upload_date |-> toISOString(now),
                   upload_source |-> "public_link", upload_token_used |-> token]]

SavedRow(id, claim, company, fileName, fileUrl, fileSize, name, token, lookupFails) ==
    LET tokenData == MaybeSingle({r \in docs : /\ Eq(r.upload_token, token)
                                               /\ \/ Like(r.file_name, BATCH_PREFIX)
                                                  \/ Like(r.file_name, PLACEHOLDER_PREFIX)},
                                 lookupFails).data
    IN  [id |-> id,
         claim_id |-> claim,
         company_id |-> company,
         file_name |-> fileName,
         file_path |-> fileUrl,
         file_type |-> Extension(fileName),
         file_size |-> fileSize,
         uploaded_by |-> IF tokenData = NULL THEN NULLV ELSE tokenData.uploaded_by,
         field_label |-> "Uploaded by: " \o name,
         upload_token |-> NULLV,
         token_expires_at |-> NullTs,
         uploaded_via_link |-> TRUE,
         is_selected |-> FALSE,
         metadata |-> [uploader_name |-> name, upload_date |-> toISOString(now),
                       upload_source |-> "public_link", upload_token_used |-> token]]

\* variant: a save that consumes the token it was made under (C7 depends on the
\* token row being kept)
saveUploadedDocument_SingleUse(claim, company, fileName, fileUrl, fileSize, name, token, lookupFails, insertOk) ==
    IF insertOk
    THEN /\ docs' = {r \in docs : r.upload_token # token}
                      \cup {SavedRow(nextId, claim, company, fileName, fileUrl,
                                     fileSize, name, token, lookupFails)}
         /\ nextId' = nextId + 1
    ELSE UNCHANGED <<docs, nextId>>

\* variant: a save that gives up when the token lookup fails (C25 depends on the
\* lookup error being only logged)
saveUploadedDocument_AbortOnLookup(claim, company, fileName, fileUrl, fileSize, name, token, lookupFails, insertOk) ==
    IF insertOk /\ ~lookupFails
    THEN /\ docs' = docs \cup {SavedRow(nextId, claim, company, fileName, fileUrl,
                                        fileSize, name, token, lookupFails)}
         /\ nextId' = nextId + 1
    ELSE UNCHANGED <<docs, nextId>>

\* the effect of one call on the table; insertOk = FALSE is the thrown insert error
saveUploadedDocument(claim, company, fileName, fileUrl, fileSize, name, token, lookupFails, insertOk) ==
    IF insertOk
    THEN /\ docs' = docs \cup {SavedRow(nextId, claim, company, fileName, fileUrl,
                                        fileSize, name, token, lookupFails)}
         /\ nextId' = nextId + 1
    ELSE UNCHANGED <<docs, nextId>>

----------------------------------------------------------------------------
(* PublicUpload.tsx *)

MAX_FILES == 10

MaxListLen == 3   \* files the visitor puts on the list
MaxTimedLen == 2  \* the same, where the clock runs beside the page

Trim(name) == IF name = " " THEN "" ELSE name

TheFiles == {[name |-> <<"a", "pdf">>, type |-> "application/pdf", size |-> MAX_FILE_SIZE],
             [name |-> <<"b", "pdf">>, type |-> "application/pdf", size |-> MAX_FILE_SIZE + 1]}

Selections == {<<f>> : f \in TheFiles} \cup {<<f, g>> : f \in TheFiles, g \in TheFiles}

\* the page is opened at /public-upload?token=<tok> (NULLV: no token parameter)
PageLoad(tok) ==
    /\ pagePc = "closed"
    /\ pagePc' = "checking"
    /\ pToken' = tok
    /\ toast' = <<>>
    /\ UNCHANGED <<authvars, ud, tokvars, blobs, tokenValid, pClaimId, pCompanyId, uploaderName, files,
                   isUploading, up, requestFailed, tabvars>>

\* variant: checkToken without the else branch of `if (result)` (C5 depends on
\* the page leaving its loading state when validation returns null)
checkToken_NoElse(requestFails) ==
    /\ pagePc = "checking"
    /\ pagePc' = "ready"
    /\ IF pToken = NULLV \/ pToken = ""
       THEN /\ tokenValid' = "false"
            /\ UNCHANGED <<pClaimId, pCompanyId, requestFailed>>
       ELSE LET result == validateBatchUploadToken(pToken, docs, now, requestFails)
            IN  /\ requestFailed' = requestFails
                /\ IF result # NULL
                   THEN /\ tokenValid' = "true"
                        /\ pClaimId' = result.claimId
                        /\ pCompanyId' = result.companyId
                   ELSE UNCHANGED <<tokenValid, pClaimId, pCompanyId>>
    /\ toast' = <<>>
    /\ UNCHANGED <<authvars, ud, tokvars, blobs, pToken, uploaderName, files, isUploading, up, tabvars>>

\* lines 35-49
checkToken(requestFails) ==
    /\ pagePc = "checking"
    /\ pagePc' = "ready"
    /\ IF pToken = NULLV \/ pToken = ""
       THEN /\ tokenValid' = "false"
            /\ UNCHANGED <<pClaimId, pCompanyId, requestFailed>>
       ELSE LET result == validateBatchUploadToken(pToken, docs, now, requestFails)
            IN  /\ requestFailed' = requestFails
                /\ IF result # NULL
                   THEN /\ tokenValid' = "true"
                        /\ pClaimId' = result.claimId
                        /\ pCompanyId' = result.companyId
                   ELSE /\ tokenValid' = "false"
                        /\ UNCHANGED <<pClaimId, pCompanyId>>
    /\ toast' = <<>>
    /\ UNCHANGED <<authvars, ud, tokvars, blobs, pToken, uploaderName, files, isUploading, up, tabvars>>

\* variant: the form rendered whatever validation said (C23 depends on the two
\* early returns of the render)
FormShown_Always == pagePc = "ready"

\* the upload form is rendered only when tokenValid is true (lines 169-191)
FormShown == pagePc = "ready" /\ tokenValid = "true"

setUploaderName(name) ==
    /\ FormShown
    /\ ~isUploading
    /\ uploaderName' = name
    /\ toast' = <<>>
    /\ UNCHANGED <<authvars, ud, tokvars, blobs, pagePc, pToken, tokenValid, pClaimId, pCompanyId, files,
                   isUploading, up, requestFailed, tabvars>>

\* variant: the limit applied to the files that pass the size check only (C22
\* depends on the whole selection being counted)
handleFileSelect_CountValid(selectedFiles) ==
    /\ FormShown
    /\ ~(isUploading \/ Len(files) >= MAX_FILES)
    /\ LET validFiles == SelectSeq(selectedFiles, LAMBDA f : validateFileSize(f).valid)
           newFiles == [k \in 1..Len(validFiles) |->
                          [file |-> validFiles[k], status |-> "pending",
                           url |-> NULLV, error |-> NULLV]]
       IN  IF Len(files) + Len(validFiles) > MAX_FILES
           THEN /\ toast' = <<"error", "Maximum files allowed">>
                /\ UNCHANGED files
           ELSE IF Len(validFiles) > 0
           THEN /\ files' = files \o newFiles
                /\ toast' = <<"success", "file(s) added">>
           ELSE /\ UNCHANGED files
                /\ toast' = <<"error", "exceeds 5MB limit">>
    /\ UNCHANGED <<authvars, ud, tokvars, blobs, pagePc, pToken, tokenValid, pClaimId, pCompanyId,
                   uploaderName, isUploading, up, requestFailed, tabvars>>

\* lines 54-91
handleFileSelect(selectedFiles) ==
    /\ FormShown
    /\ ~(isUploading \/ Len(files) >= MAX_FILES)
    /\ IF Len(files) + Len(selectedFiles) > MAX_FILES
       THEN /\ toast' = <<"error", "Maximum files allowed">>
            /\ UNCHANGED files
       ELSE LET validFiles == SelectSeq(selectedFiles, LAMBDA f : validateFileSize(f).valid)
                newFiles == [k \in 1..Len(validFiles) |->
                               [file |-> validFiles[k], status |-> "pending",
                                url |-> NULLV, error |-> NULLV]]
            IN  IF Len(validFiles) > 0
                THEN /\ files' = files \o newFiles
                     /\ toast' = <<"success", "file(s) added">>
                ELSE /\ UNCHANGED files
                     /\ toast' = <<"error", "exceeds 5MB limit">>
    /\ UNCHANGED <<authvars, ud, tokvars, blobs, pagePc, pToken, tokenValid, pClaimId, pCompanyId,
                   uploaderName, isUploading, up, requestFailed, tabvars>>


\* variant: the remove button left enabled during a run (C26 depends on
\* disabled={isUploading})
removeFile_DuringRun(index) ==
    /\ FormShown
    /\ index \in 1..Len(files)
    /\ files[index].status = "pending"
    /\ files' = [k \in 1..(Len(files) - 1) |-> IF k < index THEN files[k] ELSE files[k + 1]]
    /\ toast' = <<>>
    /\ UNCHANGED <<authvars, ud, tokvars, blobs, pagePc, pToken, tokenValid, pClaimId, pCompanyId,
                   uploaderName, isUploading, up, requestFailed, tabvars>>

\* lines 93-95; the button is shown for a pending file and disabled during a run
removeFile(index) ==
    /\ FormShown
    /\ ~isUploading
    /\ index \in 1..Len(files)
    /\ files[index].status = "pending"
    /\ files' = [k \in 1..(Len(files) - 1) |-> IF k < index THEN files[k] ELSE files[k + 1]]
    /\ toast' = <<>>
    /\ UNCHANGED <<authvars, ud, tokvars, blobs, pagePc, pToken, tokenValid, pClaimId, pCompanyId,
                   uploaderName, isUploading, up, requestFailed, tabvars>>

\* variant: the map without its `idx === i` test (C14 depends on one entry being
\* touched at a time)
SetFile_All(prev, i, status, url, error) ==
    [k \in 1..Len(prev) |->
        [file |-> prev[k].file, status |-> status,
         url |-> IF url = NULLV THEN prev[k].url ELSE url,
         error |-> IF error = NULLV THEN prev[k].error ELSE error]]

\* setFiles(prev => prev.map((f, idx) => idx === i ? {...f, ...} : f))
SetFile(prev, i, status, url, error) ==
    [k \in 1..Len(prev) |->
        IF k = i THEN [file |-> prev[k].file, status |-> status,
                       url |-> IF url = NULLV THEN prev[k].url ELSE url,
                       error |-> IF error = NULLV THEN prev[k].error ELSE error]
                 ELSE prev[k]]

\* variant: the count of the files that are done, failed ones included (C17
\* depends on 'success' alone being counted)
successCount_Done(s) == Len(SelectSeq(s, LAMBDA f : f.status \in {"success", "error"}))

successCount(s) == Len(SelectSeq(s, LAMBDA f : f.status = "success"))

\* lines 97-108: the button is enabled, the two checks pass, the run starts with
\* the files, claimId, companyId, uploaderName and token of this render
handleUpload ==
    /\ FormShown
    /\ Len(files) > 0
    /\ ~(isUploading \/ Trim(uploaderName) = "")
    /\ up.pc = "idle"
    /\ isUploading' = TRUE
    /\ up' = [pc |-> "loop", i |-> 1, files |-> files, claimId |-> pClaimId,
              companyId |-> pCompanyId, uploaderName |-> uploaderName, token |-> pToken,
              url |-> NULLV]
    /\ toast' = <<>>
    /\ UNCHANGED <<authvars, ud, tokvars, blobs, pagePc, pToken, tokenValid, pClaimId, pCompanyId,
                   uploaderName, files, requestFailed, tabvars>>

\* variant: a catch that ends the loop (C15 depends on the run going on after a
\* failed file)
Caught_Break(i, message) ==
    /\ files' = SetFile(files, i, "error", NULLV, message)
    /\ toast' = <<"error", "Failed to upload">>
    /\ up' = [up EXCEPT !.pc = "loop", !.i = Len(up.files) + 1, !.url = NULLV]

\* lines 146-158, then the next iteration
Caught(i, message) ==
    /\ files' = SetFile(files, i, "error", NULLV, message)
    /\ toast' = <<"error", "Failed to upload">>
    /\ up' = [up EXCEPT !.pc = "loop", !.i = i + 1, !.url = NULLV]

\* variant: the run ends without setIsUploading(false) (C16 depends on the flag
\* being cleared)
UpLoop_StillUploading ==
    /\ up.pc = "loop"
    /\ IF up.i > Len(up.files)
       THEN /\ isUploading' = TRUE
            /\ up' = Idle
            /\ IF successCount(up.files) = Len(up.files)
               THEN toast' = <<"success", "All files uploaded successfully">>
               ELSE toast' = <<>>
            /\ UNCHANGED files
       ELSE /\ UNCHANGED isUploading
            /\ IF up.files[up.i].status = "success"
               THEN /\ up' = [up EXCEPT !.i = up.i + 1]
                    /\ UNCHANGED files
                    /\ toast' = <<>>
               ELSE IF uploadDocumentRejects(up.files[up.i].file)
               THEN Caught(up.i, "File size exceeds 5MB limit")
               ELSE /\ files' = SetFile(files, up.i, "uploading", NULLV, NULLV)
                    /\ up' = [up EXCEPT !.pc = "fetch"]
                    /\ toast' = <<>>
    /\ UNCHANGED <<authvars, ud, tokvars, blobs, pagePc, pToken, tokenValid, pClaimId, pCompanyId,
                   uploaderName, requestFailed, tabvars>>

\* lines 110-122 and 161-166: the loop head, up to the request of uploadDocument
UpLoop ==
    /\ up.pc = "loop"
    /\ IF up.i > Len(up.files)
       THEN /\ isUploading' = FALSE
            /\ up' = Idle
            /\ IF successCount(up.files) = Len(up.files)
               THEN toast' = <<"success", "All files uploaded successfully">>
               ELSE toast' = <<>>
            /\ UNCHANGED files
       ELSE /\ UNCHANGED isUploading
            /\ IF up.files[up.i].status = "success"
               THEN /\ up' = [up EXCEPT !.i = up.i + 1]
                    /\ UNCHANGED files
                    /\ toast' = <<>>
               ELSE IF uploadDocumentRejects(up.files[up.i].file)
               THEN Caught(up.i, "File size exceeds 5MB limit")
               ELSE /\ files' = SetFile(files, up.i, "uploading", NULLV, NULLV)
                    /\ up' = [up EXCEPT !.pc = "fetch"]
                    /\ toast' = <<>>
    /\ UNCHANGED <<authvars, ud, tokvars, blobs, pagePc, pToken, tokenValid, pClaimId, pCompanyId,
                   uploaderName, requestFailed, tabvars>>

\* uploadDocument lines 36-56: the POST to the upload endpoint answers
UpFetch(ok) ==
    /\ up.pc = "fetch"
    /\ IF ok
       THEN /\ Cardinality(blobs) < MaxBlobs
            /\ blobs' = blobs \cup {Blob(NewUrl, up.files[up.i].file, up.claimId,
                                         up.uploaderName, up.companyId)}
            /\ up' = [up EXCEPT !.pc = "save", !.url = NewUrl]
            /\ UNCHANGED files
                    /\ toast' = <<>>
       ELSE /\ Caught(up.i, "Upload failed")
            /\ UNCHANGED blobs
    /\ UNCHANGED <<authvars, ud, tokvars, pagePc, pToken, tokenValid, pClaimId, pCompanyId,
                   uploaderName, isUploading, requestFailed, tabvars>>

\* variant: the result of saveUploadedDocument is not looked at (C18 depends on a
\* failed metadata write reaching the catch)
UpSave_IgnoreError(lookupFails, insertOk) ==
    /\ up.pc = "save"
    /\ saveUploadedDocument(up.claimId, up.companyId, up.files[up.i].file.name, up.url,
                            up.files[up.i].file.size, up.uploaderName, up.token,
                            lookupFails, insertOk)
    /\ files' = SetFile(files, up.i, "success", up.url, NULLV)
    /\ toast' = <<"success", "uploaded successfully">>
    /\ up' = [up EXCEPT !.pc = "loop", !.i = up.i + 1, !.url = NULLV]
    /\ UNCHANGED <<authvars, ud, now, nextUuid, gen, calls, blobs, pagePc, pToken, tokenValid, pClaimId,
                   pCompanyId, uploaderName, isUploading, requestFailed, tabvars>>

\* lines 131-145: saveUploadedDocument answers
UpSave(lookupFails, insertOk) ==
    /\ up.pc = "save"
    /\ saveUploadedDocument(up.claimId, up.companyId, up.files[up.i].file.name, up.url,
                            up.files[up.i].file.size, up.uploaderName, up.token,
                            lookupFails, insertOk)
    /\ IF insertOk
       THEN /\ files' = SetFile(files, up.i, "success", up.url, NULLV)
            /\ toast' = <<"success", "uploaded successfully">>
            /\ up' = [up EXCEPT !.pc = "loop", !.i = up.i + 1, !.url = NULLV]
       ELSE Caught(up.i, "Upload failed")
    /\ UNCHANGED <<authvars, ud, now, nextUuid, gen, calls, blobs, pagePc, pToken, tokenValid, pClaimId,
                   pCompanyId, uploaderName, isUploading, requestFailed, tabvars>>

----------------------------------------------------------------------------
(* DocumentsTab *)

MaxDirectLen == 1   \* files chosen in the direct-upload dialog

\* the uploadedDocuments query of a claim
\* variant: the query without its three filters (C6 depends on the grid never
\* showing a token row)
Listing_Unfiltered(claim) == {r \in docs : r.claim_id = claim}

Listing(claim) ==
    {r \in docs : /\ r.claim_id = claim
                  /\ r.file_type # NULLV /\ r.file_type # "placeholder"
                  /\ ~Like(r.file_name, PLACEHOLDER_PREFIX)
                  /\ ~Like(r.file_name, BATCH_PREFIX)}

\* generateBatchUploadToken(claim.id) with the default expiry
generateLinkMutation(claim) == generateBatchUploadToken(claim, DefaultExpiryHours, "mutation")

\* a document of the grid is deleted by its id
deleteDocumentMutation(documentId, ok) ==
    /\ \E c \in Claims : \E r \in Listing(c) : r.id = documentId
    /\ IF ok
       THEN /\ docs' = {r \in docs : r.id # documentId}
            /\ toast' = <<"success", "Document deleted successfully">>
       ELSE /\ UNCHANGED docs
            /\ toast' = <<"error", "Failed to delete document">>
    /\ UNCHANGED <<authvars, ud, now, nextId, nextUuid, gen, calls, blobs, pagevars, tabvars>>

DirectRow(id, claim, company, file, url, user) ==
    [id |-> id,
     claim_id |-> claim,
     company_id |-> company,
     file_name |-> file.name,
     file_path |-> url,
     file_type |-> file.type,
     file_size |-> file.size,
     uploaded_by |-> user,
     field_label |-> NULLV,
     upload_token |-> NULLV,
     token_expires_at |-> NullTs,
     uploaded_via_link |-> FALSE,
     is_selected |-> FALSE,
     metadata |-> NoMetadata]

\* lines 165-218: the files that pass validateFileSize are put in the dialog, the
\* button is pressed, and the user and the company are resolved
handleDirectUpload(claim, chosen, user) ==
    /\ dup.pc = "idle"
    /\ LET selectedFiles == SelectSeq(chosen, LAMBDA f : validateFileSize(f).valid)
       IN  /\ Len(selectedFiles) > 0
           /\ IF user = NoUser
              THEN /\ toast' = <<"error", "User not authenticated">>
                   /\ UNCHANGED dup
              ELSE IF UserCompany[user] = NULLV
              THEN /\ toast' = <<"error", "User has no company">>
                   /\ UNCHANGED dup
              ELSE /\ dup' = [pc |-> "fetch", selectedFiles |-> selectedFiles, k |-> 1,
                              claim |-> claim, user |-> user,
                              company_id |-> UserCompany[user], url |-> NULLV]
                   /\ toast' = <<>>
    /\ UNCHANGED <<authvars, ud, tokvars, blobs, pagevars, uploadLink>>

DirectNext(d) ==
    IF d.k + 1 > Len(d.selectedFiles) THEN Idle
    ELSE [d EXCEPT !.pc = "fetch", !.k = d.k + 1, !.url = NULLV]

\* lines 222-227 and 244-247: uploadDocument answers
DirectFetch(ok) ==
    /\ dup.pc = "fetch"
    /\ IF ok /\ ~uploadDocumentRejects(dup.selectedFiles[dup.k])
       THEN /\ Cardinality(blobs) < MaxBlobs
            /\ blobs' = blobs \cup {Blob(NewUrl, dup.selectedFiles[dup.k], dup.claim,
                                         dup.user, dup.company_id)}
            /\ dup' = [dup EXCEPT !.pc = "insert", !.url = NewUrl]
            /\ toast' = <<>>
       ELSE /\ toast' = <<"error", "Failed to upload">>
            /\ dup' = DirectNext(dup)
            /\ UNCHANGED blobs
    /\ UNCHANGED <<authvars, ud, tokvars, pagevars, uploadLink>>

\* lines 229-243: the insert answers; its error is not looked at
DirectInsert(ok) ==
    /\ dup.pc = "insert"
    /\ IF ok
       THEN /\ docs' = docs \cup {DirectRow(nextId, dup.claim, dup.company_id,
                                            dup.selectedFiles[dup.k], dup.url, dup.user)}
            /\ nextId' = nextId + 1
       ELSE UNCHANGED <<docs, nextId>>
    /\ toast' = <<"success", "uploaded successfully">>
    /\ dup' = DirectNext(dup)
    /\ UNCHANGED <<authvars, ud, now, nextUuid, gen, calls, blobs, pagevars, uploadLink>>

----------------------------------------------------------------------------
(* AuthProvider.tsx *)

MaxFetches == 2   \* fetchUserRole calls awaiting their answer at one time

\* the sessions of the auth client and session.user.id of each
Sessions == {"session-1", "session-2"}
SessionUser == [s \in Sessions |-> IF s = "session-1" THEN "u1" ELSE "u2"]

PendingFetches == roleFetches["u1"] + roleFetches["u2"]

\* the answers of the users query of fetchUserRole: an error, a thrown exception,
\* no row, or the row of the user
RoleAnswers ==
    {[kind |-> k, status |-> NULLV, role |-> NULLV, company_id |-> NULLV] :
        k \in {"error", "thrown", "none"}}
    \cup {[kind |-> "row", status |-> st, role |-> ro, company_id |-> co] :
             st \in {"active", "pending", "suspended", "invited"},
             ro \in {"admin", NULLV}, co \in {"coA", NULLV}}

\* lines 90-93 and 100-103: session and user are set, and fetchUserRole is called
\* for the user of a session
SetSession(s) ==
    /\ s # NULLV => PendingFetches < MaxFetches
    /\ roleFetches' = IF s # NULLV
                      THEN [roleFetches EXCEPT ![SessionUser[s]] = @ + 1]
                      ELSE roleFetches

\* lines 89-98: the getSession() promise resolves
GetSessionThen(s) ==
    /\ getSession = "pending"
    /\ getSession' = "done"
    /\ SetSession(s)
    /\ auth' = [auth EXCEPT !.session = s,
                            !.user = IF s = NULLV THEN NULLV ELSE SessionUser[s],
                            !.loading = FALSE]
    /\ UNCHANGED <<tokvars, blobs, pagevars, tabvars, ud, toast>>

\* lines 100-114: the onAuthStateChange callback
onAuthStateChange(s) ==
    /\ SetSession(s)
    /\ auth' = IF s # NULLV
               THEN [auth EXCEPT !.session = s, !.user = SessionUser[s], !.loading = FALSE]
               ELSE [auth EXCEPT !.session = NULLV, !.user = NULLV, !.loading = FALSE,
                                 !.userRole = NULLV, !.companyId = NULLV]
    /\ UNCHANGED <<getSession, tokvars, blobs, pagevars, tabvars, ud, toast>>

\* lines 46-86: the users query of a fetchUserRole(userId) call answers
fetchUserRole(userId, answer) ==
    /\ roleFetches[userId] > 0
    /\ roleFetches' = [roleFetches EXCEPT ![userId] = roleFetches[userId] - 1]
    /\ auth' = IF answer.kind \in {"error", "thrown"}
               THEN [auth EXCEPT !.userRole = "user"]
               ELSE IF answer.kind = "none" \/ answer.status # "active"
               THEN [auth EXCEPT !.userRole = NULLV]
               ELSE [auth EXCEPT !.userRole = IF answer.role = NULLV THEN "user"
                                              ELSE answer.role,
                                 !.companyId = answer.company_id]
    /\ UNCHANGED <<getSession, tokvars, blobs, pagevars, tabvars, ud, toast>>

----------------------------------------------------------------------------
(* The clock *)

Tick ==
    /\ \E t \in TimePoints : t > now /\ now' = t
    /\ toast' = <<>>
    /\ UNCHANGED <<authvars, ud, docs, nextId, nextUuid, gen, calls, blobs, pagevars, tabvars>>

----------------------------------------------------------------------------

Init ==
    /\ now = 0
    /\ docs = {}
    /\ nextId = 1
    /\ nextUuid = 0
    /\ gen = NoCall
    /\ calls = {}
    /\ blobs = {}
    /\ pagePc = "closed"
    /\ pToken = NULLV
    /\ tokenValid = "null"
    /\ pClaimId = ""
    /\ pCompanyId = ""
    /\ uploaderName = ""
    /\ files = <<>>
    /\ isUploading = FALSE
    /\ up = Idle
    /\ requestFailed = FALSE
    /\ dup = Idle
    /\ uploadLink = <<>>
    /\ ud = Idle
    /\ auth = [user |-> NULLV, session |-> NULLV, loading |-> TRUE, userRole |-> NULLV,
               companyId |-> NULLV]
    /\ getSession = "pending"
    /\ roleFetches = [u \in Users |-> 0]
    /\ toast = <<>>

\* Token issuance and the clock
TokNext ==
    \/ Tick
    \/ \E c \in Claims, f \in FieldLabels, d \in ExpiryDaysInputs : generateUploadToken(c, f, d)
    \/ \E c \in Claims, h \in {0, 1} : generateBatchUploadToken(c, h, "api")
    \/ \E c \in Claims : generateLinkMutation(c)
    \/ \E u \in Users \cup {NoUser} : GenGetUser(u)
    \/ GenGetProfile
    \/ \E ok \in BOOLEAN : GenInsert(ok)

TokSpec == Init /\ [][TokNext]_vars

\* Tokens of both kinds issued by one user for one claim, and the clock
KindsNext ==
    \/ Tick
    \/ \E f \in FieldLabels, d \in ExpiryDaysInputs : generateUploadToken("c1", f, d)
    \/ \E h \in {0, 1} : generateBatchUploadToken("c1", h, "api")
    \/ GenGetUser("u1")
    \/ GenGetProfile
    \/ GenInsert(TRUE)

KindsSpec == Init /\ [][KindsNext]_vars

\* saveUploadedDocument called on its own, as the exported function it is
MaxSaves == 2     \* rows written by direct calls of saveUploadedDocument

SaveCall(claim, company, file, token, lookupFails, insertOk) ==
    /\ Cardinality({r \in docs : r.uploaded_via_link}) < MaxSaves
    /\ saveUploadedDocument(claim, company, file.name, <<"https://store/", 1>>, file.size,
                            "Ann", token, lookupFails, insertOk)
    /\ toast' = <<>>
    /\ UNCHANGED <<authvars, ud, now, nextUuid, gen, calls, blobs, pagevars, tabvars>>

ValidFiles == {f \in TheFiles : validateFileSize(f).valid}

NoLinkYet == nextUuid = 0

\* The first link issued, the clock and uploads recorded under the link
SaveNext ==
    \/ Tick
    \/ NoLinkYet /\ generateLinkMutation("c1")
    \/ \E h \in {0, 1} : NoLinkYet /\ generateBatchUploadToken("c1", h, "api")
    \/ \E f \in FieldLabels : NoLinkYet /\ generateUploadToken("c1", f, 0)
    \/ GenGetUser("u1")
    \/ GenGetProfile
    \/ \E ok \in BOOLEAN : GenInsert(ok)
    \/ \E f \in ValidFiles, lookupFails \in BOOLEAN, insertOk \in BOOLEAN :
          SaveCall("c1", "coA", f, UUID(1), lookupFails, insertOk)

SaveSpec == Init /\ [][SaveNext]_vars

\* A visitor opens a link: the first link issued, the clock, the page load and
\* checkToken
VisitNext ==
    \/ Tick
    \/ \E c \in Claims : NoLinkYet /\ generateLinkMutation(c)
    \/ \E c \in Claims, h \in {0, 1} \cup LongExpiryHoursInputs :
          NoLinkYet /\ generateBatchUploadToken(c, h, "api")
    \/ \E c \in Claims, f \in FieldLabels, d \in ExpiryDaysInputs \cup LongExpiryDaysInputs :
          NoLinkYet /\ generateUploadToken(c, f, d)
    \/ \E u \in Users \cup {NoUser} : GenGetUser(u)
    \/ GenGetProfile
    \/ \E ok \in BOOLEAN : GenInsert(ok)
    \/ \E tok \in {UUID(1), "no-such-token", "", NULLV} : PageLoad(tok)
    \/ \E requestFails \in BOOLEAN : checkToken(requestFails)

VisitSpec == Init /\ [][VisitNext]_vars

\* The public upload flow under the first link issued, which lasts one hour or
\* the default.  Issuance failures and the other expiries are explored by TokSpec.
PageClaims == {"c1"}
PageUsers == {"u1"}
PageUrlTokens == {UUID(1), "", NULLV}
PageNames == {"Ann"}

Next ==
    \/ Tick
    \/ \E c \in PageClaims : NoLinkYet /\ generateLinkMutation(c)
    \/ \E c \in PageClaims : NoLinkYet /\ generateBatchUploadToken(c, 1, "api")
    \/ \E u \in PageUsers : GenGetUser(u)
    \/ GenGetProfile
    \/ \E ok \in BOOLEAN : GenInsert(ok)
    \/ \E tok \in PageUrlTokens : PageLoad(tok)
    \/ \E requestFails \in BOOLEAN : checkToken(requestFails)
    \/ \E name \in PageNames : setUploaderName(name)
    \/ \E sel \in Selections : Len(files) + Len(sel) <= MaxTimedLen /\ handleFileSelect(sel)
    \/ \E index \in 1..MaxTimedLen : removeFile(index)
    \/ handleUpload
    \/ UpLoop
    \/ \E ok \in BOOLEAN : UpFetch(ok)
    \/ \E lookupFails \in BOOLEAN, insertOk \in BOOLEAN : UpSave(lookupFails, insertOk)

Spec == Init /\ [][Next]_vars

\* The batches of the public page at one instant: the first link issued, lists of up
\* to MaxListLen files, and any number of handleUpload runs
BatchNext ==
    \/ \E c \in PageClaims : NoLinkYet /\ generateLinkMutation(c)
    \/ \E u \in PageUsers : GenGetUser(u)
    \/ GenGetProfile
    \/ GenInsert(TRUE)
    \/ PageLoad(UUID(1))
    \/ checkToken(FALSE)
    \/ \E name \in PageNames : setUploaderName(name)
    \/ \E sel \in Selections : Len(files) + Len(sel) <= MaxListLen /\ handleFileSelect(sel)
    \/ \E index \in 1..MaxListLen : removeFile(index)
    \/ handleUpload
    \/ UpLoop
    \/ \E ok \in BOOLEAN : UpFetch(ok)
    \/ \E insertOk \in BOOLEAN : UpSave(FALSE, insertOk)

BatchSpec == Init /\ [][BatchNext]_vars

\* The file list of the public page up to its limit: selections of one, two, ten
\* and eleven files, and removals
ListFiles == TheFiles \cup {[name |-> <<"c", "pdf">>, type |-> "application/pdf", size |-> 1]}

ListSelections ==
    {<<f>> : f \in ListFiles} \cup {<<f, g>> : f \in ListFiles, g \in ListFiles}
        \cup {[k \in 1..n |-> CHOOSE f \in TheFiles : validateFileSize(f).valid] :
                 n \in {MAX_FILES, MAX_FILES + 1}}

SelectNext ==
    \/ \E c \in PageClaims : NoLinkYet /\ generateLinkMutation(c)
    \/ \E u \in PageUsers : GenGetUser(u)
    \/ GenGetProfile
    \/ GenInsert(TRUE)
    \/ PageLoad(UUID(1))
    \/ checkToken(FALSE)
    \/ \E sel \in ListSelections : handleFileSelect(sel)
    \/ \E index \in 1..MAX_FILES : removeFile(index)

SelectSpec == Init /\ [][SelectNext]_vars

\* Uploads from the public page of files whose names differ in their extension,
\* as the uploadedDocuments query of the claim then shows them
NamedFiles ==
    {[name |-> <<"a", "pdf">>, type |-> "application/pdf", size |-> MAX_FILE_SIZE],
     [name |-> <<"scan", "placeholder">>, type |-> "", size |-> 1]}

ListedNext ==
    \/ \E c \in PageClaims : NoLinkYet /\ generateLinkMutation(c)
    \/ \E u \in PageUsers : GenGetUser(u)
    \/ GenGetProfile
    \/ GenInsert(TRUE)
    \/ PageLoad(UUID(1))
    \/ checkToken(FALSE)
    \/ \E name \in PageNames : setUploaderName(name)
    \/ \E f \in NamedFiles : Len(files) < MaxTimedLen /\ handleFileSelect(<<f>>)
    \/ \E index \in 1..MaxTimedLen : removeFile(index)
    \/ handleUpload
    \/ UpLoop
    \/ \E ok \in BOOLEAN : UpFetch(ok)
    \/ \E insertOk \in BOOLEAN : UpSave(FALSE, insertOk)

ListedSpec == Init /\ [][ListedNext]_vars

\* The auth client's session and events, and the answers of the role fetches
AuthNext ==
    \/ \E s \in Sessions \cup {NULLV} : GetSessionThen(s)
    \/ \E s \in Sessions \cup {NULLV} : onAuthStateChange(s)
    \/ \E u \in Users, answer \in RoleAnswers : fetchUserRole(u, answer)

AuthSpec == Init /\ [][AuthNext]_vars

\* every awaited call of a run answers, and the loop then goes on
FairBatchSpec ==
    /\ BatchSpec
    /\ WF_vars(UpLoop)
    /\ WF_vars(\E ok \in BOOLEAN : UpFetch(ok))
    /\ WF_vars(\E insertOk \in BOOLEAN : UpSave(FALSE, insertOk))

\* uploadDocument called on its own, as the exported function it is, with files of
\* every size around the limit
UploadNext ==
    \/ \E f \in SizedFiles, c \in Claims :
          uploadDocument(f, c, "Ann", ClaimCompany[c])
    \/ \E ok \in BOOLEAN : UploadAnswer(ok)

UploadSpec == Init /\ [][UploadNext]_vars

\* Every operation that writes the claim_documents table, at one instant: the first
\* link issued, public uploads of one file at a time, direct uploads, deletions
DocNext ==
    \/ \E c \in PageClaims : NoLinkYet /\ generateLinkMutation(c)
    \/ \E c \in PageClaims, f \in FieldLabels :
          NoLinkYet /\ generateUploadToken(c, f, DefaultExpiryDays)
    \/ \E u \in PageUsers : GenGetUser(u)
    \/ GenGetProfile
    \/ \E ok \in BOOLEAN : GenInsert(ok)
    \/ \E tok \in PageUrlTokens : PageLoad(tok)
    \/ \E requestFails \in BOOLEAN : checkToken(requestFails)
    \/ \E name \in PageNames : setUploaderName(name)
    \/ \E f \in TheFiles : files = <<>> /\ handleFileSelect(<<f>>)
    \/ removeFile(1)
    \/ handleUpload
    \/ UpLoop
    \/ \E ok \in BOOLEAN : UpFetch(ok)
    \/ \E lookupFails \in BOOLEAN, insertOk \in BOOLEAN : UpSave(lookupFails, insertOk)
    \/ \E id \in 1..(MaxTokens + MaxBlobs), ok \in BOOLEAN : deleteDocumentMutation(id, ok)
    \/ \E c \in PageClaims, sel \in Selections, u \in PageUsers :
          Len(sel) <= MaxDirectLen /\ handleDirectUpload(c, sel, u)
    \/ \E ok \in BOOLEAN : DirectFetch(ok)
    \/ \E ok \in BOOLEAN : DirectInsert(ok)

DocSpec == Init /\ [][DocNext]_vars

----------------------------------------------------------------------------
(* Properties *)

TokenRows == {r \in docs : r.upload_token # NULLV}

ExpiresAt(r) == NewDate(r.token_expires_at)

\* the times a validation is probed at: the clock's values and the instants
\* around the expiry e
Probes(e) == TimePoints \cup {e, e + 1} \cup (IF e > 0 THEN {e - 1} ELSE {})

\* C1: for every token record and every current time, validateUploadToken and
\* validateBatchUploadToken return null when the record's token_expires_at is
\* earlier than the current time, whatever the record's claim, company, field
\* label and kind, and whether or not the lookup request fails.
C1_ExpiredIsNull ==
    \A r \in TokenRows : \A t \in Probes(ExpiresAt(r)) \cup {now} : \A requestFails \in BOOLEAN :
        ExpiresAt(r) < t =>
            /\ validateUploadToken(r.upload_token, docs, t, requestFails) = NULL
            /\ validateBatchUploadToken(r.upload_token, docs, t, requestFails) = NULL

\* a single-field token and a batch token are both in the table and both expired
C1_Witness ==
    /\ \E r \in TokenRows : Like(r.file_name, PLACEHOLDER_PREFIX) /\ ExpiresAt(r) < now
    /\ \E r \in TokenRows : Like(r.file_name, BATCH_PREFIX) /\ ExpiresAt(r) < now

\* C2 (as claimed): validation of an issued token succeeds if and only if its
\* record exists and now < expiresAt strictly, so that at now = expiresAt it fails.
C2_ValidIffStrictlyBefore ==
    \A u \in UUIDs :
        (validateBatchUploadToken(u, docs, now, FALSE) # NULL)
            <=> (\E r \in TokenRows : r.upload_token = u /\ now < ExpiresAt(r))

\* C3 (as claimed): in the public upload flow no UploadedDocument record is
\* written under a token at a time when that token's expiresAt has already passed.
C3_NoUploadAfterExpiry ==
    \A d \in docs : d.uploaded_via_link =>
        \A r \in TokenRows : r.upload_token = d.metadata.upload_token_used =>
            NewDate(d.metadata.upload_date) <= ExpiresAt(r)

\* C4: validity is monotonically non-increasing in time.  For a token record and
\* times t1 < t2, a validation that succeeds at t2 succeeds at t1.
C4_Monotone ==
    \A r \in TokenRows :
        LET times == Probes(ExpiresAt(r))
            validBatch == {t \in times :
                             validateBatchUploadToken(r.upload_token, docs, t, FALSE) # NULL}
            validSingle == {t \in times :
                              validateUploadToken(r.upload_token, docs, t, FALSE) # NULL}
        IN  /\ \A t2 \in validBatch : \A t1 \in times : t1 < t2 => t1 \in validBatch
            /\ \A t2 \in validSingle : \A t1 \in times : t1 < t2 => t1 \in validSingle

\* C4: once the validation of an existing token returns null because of expiry, it
\* returns null after every later step.
C4_StaysExpired ==
    \A r \in TokenRows :
        (ExpiresAt(r) < now /\ validateBatchUploadToken(r.upload_token, docs, now, FALSE) = NULL)
            => validateBatchUploadToken(r.upload_token, docs', now', FALSE) = NULL

\* C4: token validity is monotonically non-increasing in time, and an expired
\* token never validates again.
C4_ValidityNonIncreasing == []C4_Monotone /\ [][C4_StaysExpired]_vars

\* a token that validates at its expiry instant and is rejected now
C4_Witness ==
    \E r \in TokenRows :
        /\ validateBatchUploadToken(r.upload_token, docs, ExpiresAt(r), FALSE) # NULL
        /\ ExpiresAt(r) < now
        /\ validateBatchUploadToken(r.upload_token, docs, now, FALSE) = NULL

RejectCase(tok, requestFails) ==
    \/ tok = "" \/ tok = NULLV
    \/ ~\E r \in TokenRows : r.upload_token = tok
    \/ requestFails
    \/ \E r \in TokenRows : r.upload_token = tok /\ ExpiresAt(r) < now

\* C5: for an empty token, a token with no record, a failed lookup and an expired
\* token the two validators return the same value, null.
C5_NullResult ==
    \A tok \in UUIDs \cup {"", NULLV, "no-such-token"} : \A requestFails \in BOOLEAN :
        RejectCase(tok, requestFails) =>
            /\ validateUploadToken(tok, docs, now, requestFails) = NULL
            /\ validateBatchUploadToken(tok, docs, now, requestFails) = NULL

\* C5: in each of these cases, and with no token parameter, checkToken leaves the
\* page in the same state: tokenValid false, no claim and no company.
C5_PageInvalid ==
    (pagePc = "checking" /\ pagePc' = "ready" /\ RejectCase(pToken, requestFailed'))
        => (tokenValid' = "false" /\ pClaimId' = "" /\ pCompanyId' = "")

\* C5: validation does not distinguish the reasons of a rejection, and the public
\* page reaches the same invalid-or-expired state for each of them.
C5_RejectionsAlike == []C5_NullResult /\ [][C5_PageInvalid]_vars

\* the page was opened with an issued token and shows the invalid state, the
\* lookup request did not fail, and the token is expired
C5_Witness ==
    /\ pagePc = "ready" /\ tokenValid = "false" /\ ~requestFailed
    /\ \E r \in TokenRows : r.upload_token = pToken /\ ExpiresAt(r) < now

\* C6: after issuance no operation changes or removes a token record: validation,
\* saveUploadedDocument, public and direct uploads and the deletion of a listed
\* document leave every token row as it is.
C6_TokenRowsKept == [][\A r \in TokenRows : r \in docs']_vars

\* a token row is in the table beside a public upload, and a listed document has
\* been deleted
C6_Witness ==
    /\ TokenRows # {}
    /\ \E d \in docs : d.uploaded_via_link
    /\ Cardinality(docs) < nextId - 1

Returned == {c \in calls : c.outcome = "returned"}

UploadsUnder(token) ==
    {d \in docs : d.uploaded_via_link /\ d.metadata.upload_token_used = token}

\* C7: a token is reusable until expiry.  After any number of uploads recorded
\* with a token that was issued, its validation succeeds at every time before its
\* expiresAt.
C7_ReusableUntilExpiry ==
    \A c \in Returned : UploadsUnder(c.token) # {} =>
        \A t \in Probes(c.data.expiresAt) \cup {now} :
            t < c.data.expiresAt => validateBatchUploadToken(c.token, docs, t, FALSE) # NULL

\* two uploads are recorded under an issued token that is not yet expired
C7_Witness ==
    \E c \in Returned :
        /\ Cardinality(UploadsUnder(c.token)) >= 2
        /\ now < c.data.expiresAt
        /\ validateBatchUploadToken(c.token, docs, now, FALSE) # NULL

\* C8: each successful issue call creates its own record, with a token value no
\* other record has (no deduplication), and each token validates as it would if
\* its record were the only one: the other tokens and their expiry have no effect.
C8_DistinctIndependent ==
    /\ \A r1 \in TokenRows, r2 \in TokenRows :
          r1.id # r2.id => r1.upload_token # r2.upload_token
    /\ Cardinality(TokenRows) = Cardinality(Returned)
    /\ \A r \in TokenRows : \A t \in Probes(ExpiresAt(r)) \cup {now} :
          validateBatchUploadToken(r.upload_token, docs, t, FALSE)
              = validateBatchUploadToken(r.upload_token, {r}, t, FALSE)

\* two tokens issued for the same claim, one expired and rejected, the other valid
C8_Witness ==
    \E r1 \in TokenRows, r2 \in TokenRows :
        /\ r1.claim_id = r2.claim_id /\ r1.upload_token # r2.upload_token
        /\ validateBatchUploadToken(r1.upload_token, docs, now, FALSE) = NULL
        /\ validateBatchUploadToken(r2.upload_token, docs, now, FALSE) # NULL

\* C9: issue then validate round-trips the scope.  Before expiry,
\* validateBatchUploadToken of a returned token gives the claimId, companyId and
\* fieldLabel of the UploadTokenData the issuer got: the claim asked for, the
\* issuer's company, and the label asked for ("Batch Upload" for a batch token).
C9_RoundTrip ==
    \A c \in Returned : \A t \in Probes(c.data.expiresAt) \cup {now} :
        t < c.data.expiresAt =>
            /\ validateBatchUploadToken(c.data.token, docs, t, FALSE)
                 = [claimId |-> c.data.claimId, companyId |-> c.data.companyId,
                    fieldLabel |-> c.data.fieldLabel]
            /\ c.fn = "batch" => c.data.fieldLabel = "Batch Upload"
            /\ c.fn = "single" => c.data.fieldLabel \in FieldLabels
            /\ \E r \in TokenRows : /\ r.upload_token = c.data.token
                                    /\ c.data.companyId = UserCompany[r.uploaded_by]

\* a single-field token and a batch token were returned and are not yet expired
C9_Witness ==
    /\ \E c \in Returned : c.fn = "single" /\ now < c.data.expiresAt
    /\ \E c \in Returned : c.fn = "batch" /\ now < c.data.expiresAt

IssueErrors == {"User not authenticated", "User has no company_id", "insert failed"}

\* C10: an issue call returns a token with exactly one new record persisted, or
\* fails with one of three errors and no record persisted; it attempts at most one
\* insert.
C10_IssueOutcomes ==
    /\ gen.pc # "idle" => gen.inserts = 0
    /\ \A c \in calls :
          /\ c.inserts <= 1
          /\ c.outcome \in {"returned", "error"}
          /\ c.outcome = "returned" =>
                /\ c.inserts = 1
                /\ c.data.token = c.token
                /\ Cardinality({r \in docs : r.upload_token = c.token}) = 1
          /\ c.outcome = "error" =>
                /\ c.error \in IssueErrors
                /\ c.data = NoData
                /\ {r \in docs : r.upload_token = c.token} = {}

\* one call returned a token and another failed at its insert
C10_Witness ==
    /\ \E c \in calls : c.outcome = "returned"
    /\ \E c \in calls : c.outcome = "error" /\ c.error = "insert failed" /\ c.inserts = 1

\* C11 (as claimed): a token is issued for a claim only by a member of the company
\* that owns the claim.  Each token record's company_id is the company of the claim
\* named by its claim_id.
C11_TokenCompanyOwnsClaim ==
    \A r \in TokenRows : r.company_id = ClaimCompany[r.claim_id]

MaxTtl == 30 * MsPerDay

\* C12 (as claimed): the ttl of an issued token is at most 30 days.  A token
\* record's expiry is never more than 30 days after the present instant, which is
\* not earlier than its issuance.
C12_TtlBounded ==
    \A r \in TokenRows : ExpiresAt(r) - now <= MaxTtl

\* C13: uploadDocument sends its request if and only if file.size <= 5,242,880
\* bytes; otherwise it throws the size error with nothing sent; only files within
\* the limit reach the store; validateFileSize is valid for exactly the sizes
\* uploadDocument accepts.
C13_SizeLimit ==
    /\ ud.pc # "idle" =>
          /\ ud.sent <=> ud.file.size <= 5242880
          /\ ud.sent <=> validateFileSize(ud.file).valid
          /\ ~ud.sent => ud.pc = "thrown" /\ ud.error = "File size exceeds 5MB limit"
    /\ \A b \in blobs : b.file.size <= 5242880
    /\ \A f \in SizedFiles : validateFileSize(f).valid <=> f.size <= 5242880

\* a file of exactly 5,242,880 bytes is in the store and a file of 5,242,881 bytes
\* has just been rejected with nothing sent
C13_Witness ==
    /\ \E b \in blobs : b.file.size = 5242880
    /\ ud.pc = "thrown" /\ ~ud.sent /\ ud.file.size = 5242881

Terminal(status) == status \in {"success", "error"}

Uploading == {k \in 1..Len(files) : files[k].status = "uploading"}

\* C14: at most one file is 'uploading'; during a run the files before the current
\* one are 'success' or 'error' and none after it is 'uploading'.
C14_OneAtATime ==
    /\ Cardinality(Uploading) <= 1
    /\ up.pc # "idle" =>
          /\ \A k \in 1..Len(files) : k < up.i => Terminal(files[k].status)
          /\ \A k \in 1..Len(files) : k > up.i => files[k].status # "uploading"
    /\ up.pc = "idle" => Uploading = {}

\* C14: file i+1 leaves 'pending' only after file i has reached 'success' or 'error'.
C14_InOrder ==
    \A k \in 1..(Len(files) - 1) :
        (Len(files') = Len(files) /\ files[k + 1].status = "pending"
           /\ files'[k + 1].status # "pending")
            => Terminal(files[k].status)

\* C14: within one handleUpload run the files are processed strictly sequentially
\* in list order.
C14_Sequential == []C14_OneAtATime /\ [][C14_InOrder]_vars

\* the second of three files is being transferred, the first is done, the third
\* waits
C14_Witness ==
    /\ Len(files) = 3 /\ up.pc = "fetch" /\ up.i = 2
    /\ Terminal(files[1].status) /\ files[2].status = "uploading"
    /\ files[3].status = "pending"

\* C15: a failed transfer or a failed metadata write of file i leaves file i in
\* 'error' with its message, and the run goes on with file i+1.
C15_FailureGoesOn ==
    (up.pc \in {"fetch", "save"} /\ up'.pc # "save" /\ files'[up.i].status # "success")
        => /\ files'[up.i].status = "error"
           /\ files'[up.i].error \in {"Upload failed", "File size exceeds 5MB limit"}
           /\ up'.pc = "loop" /\ up'.i = up.i + 1
           /\ isUploading'

\* C15: a run ends only past the last file, and then no file that was listed when
\* it started is left 'pending' behind a failed one.
C15_NoneSkipped ==
    (up.pc # "idle" /\ up'.pc = "idle")
        => /\ up.i > Len(up.files)
           /\ \A k \in 1..Len(files') : files'[k].status # "pending"

\* C15: an 'error' file keeps its message.
C15_MessageKept ==
    \A k \in 1..Len(files) : files[k].status = "error" => files[k].error # NULLV

\* C15: a batch tolerates partial failure.
C15_PartialFailure ==
    []C15_MessageKept /\ [][C15_FailureGoesOn /\ C15_NoneSkipped]_vars

\* three files, two transfers stored and two records written: the run has ended
\* with [success, error, success]
C15_Witness ==
    /\ Len(files) = 3 /\ up.pc = "idle" /\ ~isUploading
    /\ files[1].status = "success" /\ files[2].status = "error"
    /\ files[3].status = "success"
    /\ files[2].error = "Upload failed"
    /\ Cardinality(blobs) = 2
    /\ Cardinality({d \in docs : d.uploaded_via_link}) = 2

AllTerminal == \A k \in 1..Len(files) : Terminal(files[k].status)

\* C16: the step that ends a run clears isUploading and leaves each of the N files
\* the run started with in 'success' or 'error'.
C16_RunEnd ==
    (up.pc # "idle" /\ up'.pc = "idle")
        => /\ ~isUploading'
           /\ Len(files') = Len(up.files)
           /\ \A k \in 1..Len(files') : Terminal(files'[k].status)

\* C16: a handleUpload run in which every transfer and metadata call returns
\* terminates with isUploading = false and every file in 'success' or 'error'.
C16_Terminates ==
    /\ [](isUploading <=> up.pc # "idle")
    /\ [][C16_RunEnd]_vars
    /\ isUploading ~> (~isUploading /\ AllTerminal)

\* a run over three files has ended
C16_Witness ==
    /\ Len(files) = 3 /\ ~isUploading /\ up.pc = "idle" /\ AllTerminal
    /\ \E k \in 1..3 : files[k].status = "error"

AllFilesToast == <<"success", "All files uploaded successfully">>

\* C17: the 'All N files uploaded successfully' message is shown only when every
\* file of the list has status 'success' at that moment.
C17_AggregateOnlyIfAll ==
    toast = AllFilesToast =>
        /\ Len(files) > 0
        /\ \A k \in 1..Len(files) : files[k].status = "success"

\* the message is shown for a list of two files
C17_Witness == toast = AllFilesToast /\ Len(files) = 2

C19_TerminalStays ==
    \A k \in 1..Len(files) : Terminal(files[k].status) =>
        k <= Len(files') /\ files'[k].status # "uploading"

\* C19 (as claimed): terminal states are not re-entered, pressing Upload again
\* included.
C19_NoReentry == [][C19_TerminalStays]_vars

LinkRecords == {d \in docs : d.uploaded_via_link}

\* C20 (as claimed): a record is created exactly once per successfully stored file.
\* Between runs, the transfers stored by the page and the records written for them
\* are equal in number.
C20_OneRecordPerStoredFile ==
    up.pc = "idle" => Cardinality(blobs) = Cardinality(LinkRecords)

\* C21 (as claimed): in the direct-upload flow a metadata write that fails after a
\* transfer emits no 'uploaded successfully' message for the file.
C21_DirectFailureNotSuccess ==
    (dup.pc = "insert" /\ dup' # dup /\ nextId' = nextId)
        => toast' # <<"success", "uploaded successfully">>

\* C21 (as claimed): a metadata write failure after a successful transfer is never
\* reported as a success, in the public flow and in the direct-upload flow.
C21_WriteFailureSurfaced == [][C21_DirectFailureNotSuccess]_vars

\* C22: a selection that would bring the list above 10 files adds no file at all,
\* whatever the sizes of its files.
C22_OverLimitAddsNothing ==
    \A sel \in ListSelections :
        (Len(files) + Len(sel) > 10 /\ handleFileSelect(sel))
            => /\ files' = files
               /\ toast' = <<"error", "Maximum files allowed">>

\* C22: the list of the public page never holds more than 10 files.
C22_AtMostTen == []( Len(files) <= 10 ) /\ [][C22_OverLimitAddsNothing]_vars

\* a selection has just been turned down because the list held nine files
C22_Witness == Len(files) = 9 /\ toast = <<"error", "Maximum files allowed">>


\* the token record the page was opened under
PageTokenRows == {r \in TokenRows : r.upload_token = pToken}

\* C23: without a validated token the page holds no file, runs no upload and has
\* made no transfer and no record.
C23_NothingWithoutValidation ==
    tokenValid # "true" =>
        /\ files = <<>> /\ ~isUploading /\ up.pc = "idle"
        /\ blobs = {} /\ LinkRecords = {}

\* C23: the claim and company of the page, of every transfer and of every record
\* made from it are those of the record of the URL's token.
C23_ScopeOfToken ==
    (pagePc = "ready" /\ tokenValid = "true") =>
        \E r \in PageTokenRows :
            /\ pClaimId = r.claim_id /\ pCompanyId = r.company_id
            /\ \A b \in blobs : b.claimId = r.claim_id /\ b.companyId = r.company_id
            /\ \A d \in LinkRecords : /\ d.claim_id = r.claim_id
                                      /\ d.company_id = r.company_id
                                      /\ d.metadata.upload_token_used = pToken

\* C23: when there is no token in the URL, or validation returns null, checkToken
\* puts the page in its invalid-or-expired state.
C23_NullIsInvalid ==
    (/\ pagePc = "checking" /\ pagePc' = "ready"
     /\ \/ pToken = NULLV \/ pToken = ""
        \/ validateBatchUploadToken(pToken, docs, now, requestFailed') = NULL)
        => tokenValid' = "false"

\* C23: the page allows uploads only under a validated token, and every transfer
\* and record made from it carries the claim and company that validation returned.
C23_OnlyUnderValidatedToken ==
    /\ [](C23_NothingWithoutValidation /\ C23_ScopeOfToken)
    /\ [][C23_NullIsInvalid]_vars

\* a transfer and its record were made from a page opened under an issued token
C23_Witness ==
    /\ tokenValid = "true" /\ PageTokenRows # {}
    /\ blobs # {} /\ LinkRecords # {}


\* C24 (as claimed): after a successful public upload of a file, the listing of the
\* claim contains exactly one record with the file's name and size, and it never
\* contains a token record of the claim.
C24_UploadListedOnce ==
    /\ \A k \in 1..Len(files) : files[k].status = "success" =>
          Cardinality({d \in Listing(pClaimId) : /\ d.file_name = files[k].file.name
                                                 /\ d.file_size = files[k].file.size}) = 1
    /\ \A c \in Claims : Listing(c) \cap TokenRows = {}


\* C25: a call of saveUploadedDocument whose insert succeeds adds exactly one record;
\* its uploaded_by is the issuer of the token when the lookup of the token record
\* answers with the record and null when the lookup fails or finds nothing; the
\* record has a null upload_token and the token used in its metadata.  A call
\* whose insert fails adds nothing.
C25_OneRecordPerSave ==
    \A f \in ValidFiles, lookupFails \in BOOLEAN, insertOk \in BOOLEAN :
        SaveCall("c1", "coA", f, UUID(1), lookupFails, insertOk) =>
            IF insertOk
            THEN \E d \in docs' \ docs :
                    /\ docs' = docs \cup {d}
                    /\ d.claim_id = "c1" /\ d.company_id = "coA"
                    /\ d.file_name = f.name /\ d.file_size = f.size
                    /\ d.upload_token = NULLV
                    /\ d.metadata.upload_token_used = UUID(1)
                    /\ d.uploaded_by =
                          IF ~lookupFails /\ \E r \in TokenRows : r.upload_token = UUID(1)
                          THEN (CHOOSE r \in TokenRows : r.upload_token = UUID(1)).uploaded_by
                          ELSE NULLV
            ELSE docs' = docs

\* C25: saveUploadedDocument writes one record per successful call, attributed to
\* the issuer of the token when the token record is resolved and to nobody otherwise.
C25_SaveAttributed == [][C25_OneRecordPerSave]_vars

\* one record written with the issuer resolved and one written without
C25_Witness ==
    /\ \E d \in LinkRecords : d.uploaded_by = "u1" /\ d.upload_token = NULLV
    /\ \E d \in LinkRecords : d.uploaded_by = NULLV /\ d.metadata.upload_token_used = UUID(1)


\* C26: isUploading is true exactly during a run, and the list the run iterates over
\* holds the same files at the same places as the list of the page.
C26_RunSeesTheList ==
    /\ isUploading <=> up.pc # "idle"
    /\ up.pc # "idle" =>
          /\ Len(up.files) = Len(files)
          /\ \A k \in 1..Len(files) : up.files[k].file = files[k].file

\* C26: while isUploading is true no step adds, removes or moves a file, and no
\* step starts another run.
C26_ListFrozen ==
    isUploading =>
        /\ Len(files') = Len(files)
        /\ \A k \in 1..Len(files) : files'[k].file = files[k].file
        /\ up'.pc # "idle" => up'.files = up.files

\* C26: a status update of a run changes the entry of the file being transferred,
\* and the transfer stored and the record written are of that file.
C26_UpdateHitsTransferred ==
    isUploading =>
        /\ \A k \in 1..Len(files) : files'[k] # files[k] => k = up.i
        /\ \A b \in blobs' \ blobs : b.file = files[up.i].file
        /\ \A d \in docs' \ docs : /\ d.file_name = files[up.i].file.name
                                   /\ d.file_size = files[up.i].file.size
                                   /\ files'[up.i].status = "success"

\* C26: the list's length and order are constant during a run, so every index-based
\* status update applies to the file actually transferred.
C26_StableDuringRun ==
    /\ []C26_RunSeesTheList
    /\ [][C26_ListFrozen /\ C26_UpdateHitsTransferred]_vars

\* a run over two different files has stored the first and is transferring the
\* second
C26_Witness ==
    /\ isUploading /\ Len(files) = 2 /\ files[1].file # files[2].file
    /\ files[1].status = "success" /\ files[2].status = "uploading"


\* C27 (as claimed): the step that ends a run after which every file of the list is
\* 'success' emits the 'All N files uploaded successfully' message.
C27_RunEndAnnounces ==
    (/\ up.pc # "idle" /\ up'.pc = "idle"
     /\ \A k \in 1..Len(files') : files'[k].status = "success")
        => toast' = AllFilesToast

\* C27 (as claimed): when a run ends with every file in 'success', the message is
\* emitted at the end of that same run.
C27_AnnouncedInSameRun == [][C27_RunEndAnnounces]_vars


\* the rows a lookup by token string matches on the upload_token column
MatchingToken(tok) == {r \in docs : Eq(r.upload_token, tok)}

\* C28: a token string identifies at most one record; the records of public and
\* direct uploads have a null upload_token; and the single-row lookup of an issued
\* token finds exactly its issuance record.
C28_TokenIdentifiesOne ==
    /\ \A tok \in UUIDs : Cardinality(MatchingToken(tok)) <= 1
    /\ \A d \in docs :
          (~Like(d.file_name, BATCH_PREFIX) /\ ~Like(d.file_name, PLACEHOLDER_PREFIX))
              => d.upload_token = NULLV
    /\ \A c \in Returned :
          /\ MatchingToken(c.token) \subseteq TokenRows
          /\ \E r \in MatchingToken(c.token) :
                /\ r.file_name[2] = c.token
                /\ Single({x \in MatchingToken(c.token) :
                              Like(x.file_name, PLACEHOLDER_PREFIX)
                                 \/ Like(x.file_name, BATCH_PREFIX)}, FALSE)
                      = [data |-> r, error |-> FALSE]

\* a public upload and a direct upload are recorded beside the record of the token
\* the public upload was made under
C28_Witness ==
    /\ \E d \in LinkRecords : MatchingToken(d.metadata.upload_token_used) # {}
    /\ \E d \in docs : ~d.uploaded_via_link /\ d.upload_token = NULLV


\* C29: validateUploadToken returns null for every batch token at every time and
\* accepts a single-field token before its expiry; validateBatchUploadToken accepts
\* tokens of both kinds before their expiry; on a single-field token the two return
\* the same result at every time, whether the lookup request fails or not.
C29_BatchValidatorExtends ==
    \A r \in TokenRows : \A t \in Probes(ExpiresAt(r)) \cup {now} :
        LET tok == r.upload_token
        IN  /\ Like(r.file_name, BATCH_PREFIX) =>
                  validateUploadToken(tok, docs, t, FALSE) = NULL
            /\ (Like(r.file_name, PLACEHOLDER_PREFIX) /\ t < ExpiresAt(r)) =>
                  validateUploadToken(tok, docs, t, FALSE) = Scope(r)
            /\ t < ExpiresAt(r) => validateBatchUploadToken(tok, docs, t, FALSE) = Scope(r)
            /\ Like(r.file_name, PLACEHOLDER_PREFIX) =>
                  \A requestFails \in BOOLEAN :
                      validateUploadToken(tok, docs, t, requestFails)
                          = validateBatchUploadToken(tok, docs, t, requestFails)

\* an unexpired batch token and an unexpired single-field token are on record: the
\* first is accepted by validateBatchUploadToken only, the second by both
C29_Witness ==
    \E r1 \in TokenRows, r2 \in TokenRows :
        /\ Like(r1.file_name, BATCH_PREFIX) /\ Like(r2.file_name, PLACEHOLDER_PREFIX)
        /\ now < ExpiresAt(r1) /\ now < ExpiresAt(r2)
        /\ validateUploadToken(r1.upload_token, docs, now, FALSE) = NULL
        /\ validateBatchUploadToken(r1.upload_token, docs, now, FALSE) # NULL
        /\ validateUploadToken(r2.upload_token, docs, now, FALSE) # NULL


\* C30 (as claimed): the role never outlives the session.  Once a signed-out event
\* has been processed and every pending role fetch has completed, userRole is null.
C30_RoleEndsWithSession ==
    (auth.session = NULLV /\ PendingFetches = 0) => auth.userRole = NULLV

====
